---- MODULE Spec2Model ----
(***************************************************************************)
(* State-machine model of the two React components of the repository:      *)
(*   - RecommendationSystemDashboard (recommendation-system/app/page.tsx)  *)
(*   - RecommendationInterface       (unnamed/part_000)                    *)
(* Each event handler and each timer callback is one atomic action (React  *)
(* runs a handler to completion and commits its state updates together).   *)
(*                                                                         *)
(* Encodings: predicted ratings are kept in tenths (4.8 -> 48) and         *)
(* similarities in hundredths (0.92 -> 92); the text of the user-id input  *)
(* is a sequence of characters.                                            *)
(***************************************************************************)
EXTENDS Integers, Sequences, FiniteSets, TLC

VARIABLES
    \* RecommendationSystemDashboard
    activeStep,      \* useState(0)
    isRunning,       \* useState(false)
    progress,        \* useState(0)
    results,         \* useState(null), never written
    intervals,       \* live setInterval timers: id -> stepIndex of the closure
    nextInterval,    \* number of setInterval calls made so far (next timer id)
    completed,       \* history: stepIndex of every run that set activeStep
    \* RecommendationInterface
    selectedUser,    \* useState("")
    selectedModel,   \* useState("user-based")
    recommendations, \* useState([])
    isLoading,       \* useState(false)
    timeouts,        \* pending setTimeout timers: id -> inputs at the call
    nextTimeout,     \* number of setTimeout calls made so far (next timer id)
    callLog,         \* history: one record per fired timeout callback
    emptyCalls       \* history: generateRecommendations calls made with selectedUser ""

dashVars == <<activeStep, isRunning, progress, results, intervals, nextInterval, completed>>
recVars == <<selectedUser, selectedModel, recommendations, isLoading, timeouts, nextTimeout, callLog,
            emptyCalls>>
vars == <<activeStep, isRunning, progress, results, intervals, nextInterval, completed,
          selectedUser, selectedModel, recommendations, isLoading, timeouts, nextTimeout, callLog,
          emptyCalls>>

----------------------------------------------------------------------------
\* Bounds of the exploration

\* number of runStep calls explored
MaxRuns == 5

\* number of accepted generateRecommendations calls explored
MaxRequests == 2

\* number of generateRecommendations calls with an empty selectedUser explored
MaxEmptyCalls == 1

\* texts typed into the user-id input: empty, "0", "943"
UserInputs == {<<>>, <<"0">>, <<"9", "4", "3">>}

\* values offered by the model select
ModelInputs == {"user-based", "item-based"}

----------------------------------------------------------------------------
\* Helpers

Range(s) == {s[k] : k \in 1..Len(s)}

Without(f, id) == [j \in (DOMAIN f) \ {id} |-> f[j]]

With(f, id, v) == [j \in (DOMAIN f) \cup {id} |-> IF j = id THEN v ELSE f[j]]

----------------------------------------------------------------------------
\* RecommendationSystemDashboard

\* ids of the steps array, in order (index k of the code is position k+1)
steps == <<"collection", "preprocessing", "eda", "modeling">>

\* steps[activeStep]?.id || "collection"
TabsValue == IF activeStep \in 0..3 THEN steps[activeStep + 1] ELSE "collection"

\* disabled={index > activeStep}
TabsTriggerDisabled(index) == index > activeStep

\* faulty variant of StepButtonDisabled: the isRunning test is missing
C9_StepButtonDisabledNoRunGuard(i) == activeStep < i

\* the disabled prop of the Start button of step i
StepButtonDisabled(i) == IF i = 0 THEN isRunning ELSE isRunning \/ activeStep < i

runStep(stepIndex) ==
    /\ isRunning' = TRUE
    /\ progress' = 0
    /\ intervals' = With(intervals, nextInterval, stepIndex)
    /\ nextInterval' = nextInterval + 1
    /\ UNCHANGED <<activeStep, results, completed>>

\* a click on the Start button of step i; only the content of the tab
\* selected by TabsValue is on the page
ClickStepButton(i) ==
    /\ TabsValue = steps[i + 1]
    /\ ~StepButtonDisabled(i)
    /\ nextInterval < MaxRuns
    /\ runStep(i)
    /\ UNCHANGED recVars

\* a click on an enabled tab trigger: Tabs is given value and no
\* onValueChange, so the selected tab stays TabsValue and no state changes
ClickTabsTrigger(index) ==
    /\ ~TabsTriggerDisabled(index)
    /\ UNCHANGED vars

\* faulty variant of IntervalTick: setIsRunning(false) is missing
C3_IntervalTickStillRunning(id) ==
    /\ id \in DOMAIN intervals
    /\ IF progress >= 100
         THEN /\ intervals' = Without(intervals, id)
              /\ activeStep' = intervals[id] + 1
              /\ progress' = 100
              /\ completed' = Append(completed, intervals[id])
              /\ UNCHANGED isRunning
         ELSE /\ progress' = progress + 10
              /\ UNCHANGED <<intervals, isRunning, activeStep, completed>>
    /\ UNCHANGED <<results, nextInterval>>
    /\ UNCHANGED recVars

\* faulty variant of IntervalTick: setActiveStep(stepIndex + 2)
C1_IntervalTickSkip(id) ==
    /\ id \in DOMAIN intervals
    /\ IF progress >= 100
         THEN /\ intervals' = Without(intervals, id)
              /\ isRunning' = FALSE
              /\ activeStep' = intervals[id] + 2
              /\ progress' = 100
              /\ completed' = Append(completed, intervals[id])
         ELSE /\ progress' = progress + 10
              /\ UNCHANGED <<intervals, isRunning, activeStep, completed>>
    /\ UNCHANGED <<results, nextInterval>>
    /\ UNCHANGED recVars

\* faulty variant of IntervalTick: the test is prev >= 90
C11_IntervalTickEarly(id) ==
    /\ id \in DOMAIN intervals
    /\ IF progress >= 90
         THEN /\ intervals' = Without(intervals, id)
              /\ isRunning' = FALSE
              /\ activeStep' = intervals[id] + 1
              /\ progress' = 100
              /\ completed' = Append(completed, intervals[id])
         ELSE /\ progress' = progress + 10
              /\ UNCHANGED <<intervals, isRunning, activeStep, completed>>
    /\ UNCHANGED <<results, nextInterval>>
    /\ UNCHANGED recVars

\* faulty variant of IntervalTick: the test is prev > 100
C12_IntervalTickStrict(id) ==
    /\ id \in DOMAIN intervals
    /\ IF progress > 100
         THEN /\ intervals' = Without(intervals, id)
              /\ isRunning' = FALSE
              /\ activeStep' = intervals[id] + 1
              /\ progress' = 100
              /\ completed' = Append(completed, intervals[id])
         ELSE /\ progress' = progress + 10
              /\ UNCHANGED <<intervals, isRunning, activeStep, completed>>
    /\ UNCHANGED <<results, nextInterval>>
    /\ UNCHANGED recVars

\* one firing of the interval callback of timer id: the updater passed to
\* setProgress, with the clearInterval/setIsRunning/setActiveStep it performs
IntervalTick(id) ==
    /\ id \in DOMAIN intervals
    /\ IF progress >= 100
         THEN /\ intervals' = Without(intervals, id)
              /\ isRunning' = FALSE
              /\ activeStep' = intervals[id] + 1
              /\ progress' = 100
              /\ completed' = Append(completed, intervals[id])
         ELSE /\ progress' = progress + 10
              /\ UNCHANGED <<intervals, isRunning, activeStep, completed>>
    /\ UNCHANGED <<results, nextInterval>>
    /\ UNCHANGED recVars

\* the two literal arrays of the Sample Recommendations card
UserBasedSample ==
    << [item |-> "Movie 456", rating |-> 48],
       [item |-> "Movie 789", rating |-> 46],
       [item |-> "Movie 321", rating |-> 44],
       [item |-> "Movie 654", rating |-> 42],
       [item |-> "Movie 987", rating |-> 40] >>

ItemBasedSample ==
    << [item |-> "Movie 234", rating |-> 47],
       [item |-> "Movie 567", rating |-> 45],
       [item |-> "Movie 890", rating |-> 43],
       [item |-> "Movie 123", rating |-> 41],
       [item |-> "Movie 456", rating |-> 39] >>

\* activeStep >= 4 && ( ... )
SamplePanelVisible == activeStep >= 4

\* the sample entries on the page
DisplayedSamples == IF SamplePanelVisible THEN Range(UserBasedSample) \cup Range(ItemBasedSample) ELSE {}

----------------------------------------------------------------------------
\* RecommendationInterface

\* faulty variant of mockRecommendations: first two entries out of order
C4_mockUnsorted ==
    << [id |-> 2, title |-> "Pulp Fiction", genre |-> "Crime", predicted_rating |-> 46, similarity |-> 89],
       [id |-> 1, title |-> "The Shawshank Redemption", genre |-> "Drama", predicted_rating |-> 48, similarity |-> 92],
       [id |-> 3, title |-> "The Dark Knight", genre |-> "Action", predicted_rating |-> 45, similarity |-> 87] >>

\* faulty variant of mockRecommendations: a predicted rating of 5.1
C5_mockOutOfRange ==
    << [id |-> 1, title |-> "The Shawshank Redemption", genre |-> "Drama", predicted_rating |-> 51, similarity |-> 92],
       [id |-> 2, title |-> "Pulp Fiction", genre |-> "Crime", predicted_rating |-> 46, similarity |-> 89] >>

\* the literal array stored by the timeout callback
mockRecommendations ==
    << [id |-> 1, title |-> "The Shawshank Redemption", genre |-> "Drama", predicted_rating |-> 48, similarity |-> 92],
       [id |-> 2, title |-> "Pulp Fiction", genre |-> "Crime", predicted_rating |-> 46, similarity |-> 89],
       [id |-> 3, title |-> "The Dark Knight", genre |-> "Action", predicted_rating |-> 45, similarity |-> 87],
       [id |-> 4, title |-> "Forrest Gump", genre |-> "Drama", predicted_rating |-> 44, similarity |-> 85],
       [id |-> 5, title |-> "Inception", genre |-> "Sci-Fi", predicted_rating |-> 43, similarity |-> 83],
       [id |-> 6, title |-> "The Matrix", genre |-> "Sci-Fi", predicted_rating |-> 42, similarity |-> 81],
       [id |-> 7, title |-> "Goodfellas", genre |-> "Crime", predicted_rating |-> 41, similarity |-> 79],
       [id |-> 8, title |-> "The Godfather", genre |-> "Crime", predicted_rating |-> 40, similarity |-> 77] >>

\* the component keeps no rating data: its whole state is the four useState
\* cells, and nothing is ever loaded
ratings == {}

\* value of one character of the number input as a decimal digit
DigitValue(c) ==
    CASE c = "0" -> 0 [] c = "1" -> 1 [] c = "2" -> 2 [] c = "3" -> 3 [] c = "4" -> 4
      [] c = "5" -> 5 [] c = "6" -> 6 [] c = "7" -> 7 [] c = "8" -> 8 [] c = "9" -> 9

\* numeric value of a text made of decimal digits
RECURSIVE ToNumber(_)
ToNumber(str) ==
    IF Len(str) = 0 THEN 0
    ELSE 10 * ToNumber(SubSeq(str, 1, Len(str) - 1)) + DigitValue(str[Len(str)])

\* the range announced by the input: min="1" max="943"
InUserRange(str) == Len(str) > 0 /\ ToNumber(str) >= 1 /\ ToNumber(str) <= 943

\* !selectedUser : a string is falsy exactly when it is empty
Falsy(str) == Len(str) = 0

\* faulty variant of GetButtonDisabled: the isLoading test is missing
C10_GetButtonDisabledNoLoadingGuard == Falsy(selectedUser)

\* disabled={!selectedUser || isLoading}
GetButtonDisabled == Falsy(selectedUser) \/ isLoading

\* onChange={(e) => setSelectedUser(e.target.value)}
SetSelectedUser(v) ==
    /\ v # selectedUser
    /\ selectedUser' = v
    /\ UNCHANGED <<selectedModel, recommendations, isLoading, timeouts, nextTimeout, callLog, emptyCalls>>
    /\ UNCHANGED dashVars

\* onValueChange={setSelectedModel}
SetSelectedModel(m) ==
    /\ m # selectedModel
    /\ selectedModel' = m
    /\ UNCHANGED <<selectedUser, recommendations, isLoading, timeouts, nextTimeout, callLog, emptyCalls>>
    /\ UNCHANGED dashVars

\* faulty variant of generateRecommendations: the early return is missing
C15_generateRecommendationsNoReturn ==
    /\ isLoading' = TRUE
    /\ timeouts' = With(timeouts, nextTimeout, [user |-> selectedUser, model |-> selectedModel])
    /\ nextTimeout' = nextTimeout + 1
    /\ UNCHANGED <<selectedUser, selectedModel, recommendations, callLog>>

generateRecommendations ==
    IF Falsy(selectedUser)
      THEN UNCHANGED <<selectedUser, selectedModel, recommendations, isLoading, timeouts, nextTimeout, callLog>>
      ELSE /\ isLoading' = TRUE
           /\ timeouts' = With(timeouts, nextTimeout, [user |-> selectedUser, model |-> selectedModel])
           /\ nextTimeout' = nextTimeout + 1
           /\ UNCHANGED <<selectedUser, selectedModel, recommendations, callLog>>

\* a click on the Get Recommendations button
ClickGetRecommendations ==
    /\ ~GetButtonDisabled
    /\ nextTimeout < MaxRequests
    /\ generateRecommendations
    /\ UNCHANGED emptyCalls
    /\ UNCHANGED dashVars

\* generateRecommendations called while selectedUser is "": the button is
\* disabled then, so this is the handler reached by any other caller
CallGenerateRecommendationsEmpty ==
    /\ Falsy(selectedUser)
    /\ emptyCalls < MaxEmptyCalls
    /\ generateRecommendations
    /\ emptyCalls' = emptyCalls + 1
    /\ UNCHANGED dashVars

\* the result card: recommendations.length > 0 && ( ... )
ResultCardVisible == Len(recommendations) > 0

\* Recommended Movies for User {selectedUser}
HeadingUser == selectedUser

\* selectedModel === "user-based" ? "similar users" : "similar items"
Basis(model) == IF model = "user-based" THEN "similar users" ELSE "similar items"

\* Based on {...} preferences
DescriptionBasis == Basis(selectedModel)

\* faulty variant of TimeoutFires: setIsLoading(false) is missing
C2_TimeoutFiresStillLoading(id) ==
    /\ id \in DOMAIN timeouts
    /\ recommendations' = mockRecommendations
    /\ timeouts' = Without(timeouts, id)
    /\ callLog' = Append(callLog, [id |-> id, user |-> timeouts[id].user,
                                   model |-> timeouts[id].model, result |-> recommendations'])
    /\ UNCHANGED <<selectedUser, selectedModel, nextTimeout, isLoading, emptyCalls>>
    /\ UNCHANGED dashVars

\* faulty variant of TimeoutFires: the list depends on selectedModel
C6_TimeoutFiresByModel(id) ==
    /\ id \in DOMAIN timeouts
    /\ recommendations' = IF selectedModel = "item-based" THEN Tail(mockRecommendations) ELSE mockRecommendations
    /\ isLoading' = FALSE
    /\ timeouts' = Without(timeouts, id)
    /\ callLog' = Append(callLog, [id |-> id, user |-> timeouts[id].user,
                                   model |-> timeouts[id].model, result |-> recommendations'])
    /\ UNCHANGED <<selectedUser, selectedModel, nextTimeout, emptyCalls>>
    /\ UNCHANGED dashVars

\* faulty variant of TimeoutFires: an empty list is stored
C7_TimeoutFiresEmpty(id) ==
    /\ id \in DOMAIN timeouts
    /\ recommendations' = <<>>
    /\ isLoading' = FALSE
    /\ timeouts' = Without(timeouts, id)
    /\ callLog' = Append(callLog, [id |-> id, user |-> timeouts[id].user,
                                   model |-> timeouts[id].model, result |-> recommendations'])
    /\ UNCHANGED <<selectedUser, selectedModel, nextTimeout, emptyCalls>>
    /\ UNCHANGED dashVars

\* the setTimeout callback of timer id fires
TimeoutFires(id) ==
    /\ id \in DOMAIN timeouts
    /\ recommendations' = mockRecommendations
    /\ isLoading' = FALSE
    /\ timeouts' = Without(timeouts, id)
    /\ callLog' = Append(callLog, [id |-> id, user |-> timeouts[id].user,
                                   model |-> timeouts[id].model, result |-> recommendations'])
    /\ UNCHANGED <<selectedUser, selectedModel, nextTimeout, emptyCalls>>
    /\ UNCHANGED dashVars

----------------------------------------------------------------------------
\* Specifications

Init ==
    /\ activeStep = 0
    /\ isRunning = FALSE
    /\ progress = 0
    /\ results = "null"
    /\ intervals = <<>>
    /\ nextInterval = 0
    /\ completed = <<>>
    /\ selectedUser = <<>>
    /\ selectedModel = "user-based"
    /\ recommendations = <<>>
    /\ isLoading = FALSE
    /\ timeouts = <<>>
    /\ nextTimeout = 0
    /\ callLog = <<>>
    /\ emptyCalls = 0

Next ==
    \/ \E i \in 0..3 : ClickStepButton(i)
    \/ \E index \in 0..3 : ClickTabsTrigger(index)
    \/ \E id \in DOMAIN intervals : IntervalTick(id)
    \/ \E v \in UserInputs : SetSelectedUser(v)
    \/ \E m \in ModelInputs : SetSelectedModel(m)
    \/ ClickGetRecommendations
    \/ CallGenerateRecommendationsEmpty
    \/ \E id \in DOMAIN timeouts : TimeoutFires(id)

Spec == Init /\ [][Next]_vars

\* a live interval keeps ticking every 500 ms and a pending timeout fires
\* after 1500 ms
LiveSpec ==
    /\ Spec
    /\ WF_vars(\E id \in DOMAIN intervals : IntervalTick(id))
    /\ WF_vars(\E id \in DOMAIN timeouts : TimeoutFires(id))

----------------------------------------------------------------------------
\* Properties

\* C1: the Sample Recommendations panel is visible only after runs of steps
\* 0, 1, 2 and 3 have completed in that order; a run of step i >= 1 is in
\* progress only after a run of step i-1 has completed; the selected tab is
\* never ahead of activeStep.
C1_PipelineOrder ==
    /\ SamplePanelVisible =>
         (Len(completed) >= 4 /\ SubSeq(completed, 1, 4) = <<0, 1, 2, 3>>)
    /\ \A id \in DOMAIN intervals :
         intervals[id] >= 1 => (intervals[id] - 1) \in Range(completed)
    /\ \A k \in 1..4 : TabsValue = steps[k] => k - 1 <= activeStep

C1_Witness == SamplePanelVisible /\ completed = <<0, 1, 2, 3>> /\ ~isRunning

\* C2: every accepted generateRecommendations call completes: its timeout
\* leaves the pending set, isLoading is false and recommendations is the list
\* logged for that call; isLoading never stays true forever.
C2_RequestCompletes ==
    /\ \A id \in 0..(MaxRequests - 1) :
         (id \in DOMAIN timeouts) ~>
             (/\ id \notin DOMAIN timeouts
              /\ ~isLoading
              /\ DOMAIN recommendations = 1..Len(recommendations)
              /\ \E k \in 1..Len(callLog) :
                   callLog[k].id = id /\ callLog[k].result = recommendations)
    /\ isLoading ~> ~isLoading

C2_Witness == Len(callLog) >= 1 /\ ~isLoading /\ timeouts = <<>>

\* C3: every started runStep(i) completes: a state is reached where its
\* interval is cleared, isRunning is false, progress is 100 and activeStep is
\* i + 1; a cleared interval never becomes live again.
C3_StepCompletes ==
    /\ \A i \in 0..3 :
         (\E id \in DOMAIN intervals : intervals[id] = i) ~>
             (/\ intervals = <<>>
              /\ ~isRunning
              /\ progress = 100
              /\ activeStep = i + 1)
    /\ [][\A id \in 0..(MaxRuns - 1) :
            (id < nextInterval /\ id \notin DOMAIN intervals) => id \notin DOMAIN intervals']_vars

C3_Witness == ~isRunning /\ progress = 100 /\ activeStep = 3 /\ completed = <<0, 1, 2>>

\* C4: the recommendation list has at most 8 entries and is ordered by
\* predicted_rating descending, then similarity descending, then id ascending.
Precedes(a, b) ==
    \/ a.predicted_rating > b.predicted_rating
    \/ a.predicted_rating = b.predicted_rating /\ a.similarity > b.similarity
    \/ a.predicted_rating = b.predicted_rating /\ a.similarity = b.similarity /\ a.id < b.id

C4_RankedTopN ==
    /\ Len(recommendations) <= 8
    /\ \A k \in 1..(Len(recommendations) - 1) : Precedes(recommendations[k], recommendations[k + 1])

C4_Witness == Len(recommendations) > 1

\* C5: every predicted rating on either page lies in [1,5] (10..50 tenths).
C5_RatingsInRange ==
    /\ \A k \in 1..Len(recommendations) :
         recommendations[k].predicted_rating >= 10 /\ recommendations[k].predicted_rating <= 50
    /\ \A e \in DisplayedSamples : e.rating >= 10 /\ e.rating <= 50

C5_Witness == SamplePanelVisible /\ DisplayedSamples # {} /\ recommendations # <<>>

C8_OnlyValidUser ==
    /\ \A id \in DOMAIN timeouts : InUserRange(timeouts[id].user)
    /\ \A k \in 1..Len(callLog) : InUserRange(callLog[k].user)

\* C9: at most one runStep interval is live, one is live iff isRunning, and
\* no runStep starts while isRunning.
C9_OneStepAtATime ==
    /\ [](Cardinality(DOMAIN intervals) <= 1)
    /\ [](isRunning <=> DOMAIN intervals # {})
    /\ [](isRunning => \A i \in 0..3 : StepButtonDisabled(i))
    /\ [][nextInterval' # nextInterval => ~isRunning]_vars

C9_Witness == isRunning /\ Cardinality(DOMAIN intervals) = 1 /\ activeStep = 2 /\ progress = 50

\* C10: isLoading iff exactly one timeout is pending, never more than one; no
\* call starts while isLoading; a timeout that fires belongs to the latest
\* call, so it never overwrites the result of a later one.
C10_OneRequestInFlight ==
    /\ [](Cardinality(DOMAIN timeouts) <= 1)
    /\ [](isLoading <=> Cardinality(DOMAIN timeouts) = 1)
    /\ [](isLoading => GetButtonDisabled)
    /\ [][nextTimeout' # nextTimeout => ~isLoading]_vars
    /\ [][\A id \in DOMAIN timeouts :
            id \notin DOMAIN timeouts' => id = nextTimeout - 1]_vars

C10_Witness == isLoading /\ nextTimeout = 2 /\ Len(callLog) = 1

\* a step taken by an interval callback: the only dashboard step that does
\* not create an interval
DashTick == nextInterval' = nextInterval /\ dashVars' # dashVars

\* C11: a run starts at progress 0 and each tick taken below 100 adds 10 and
\* leaves isRunning true, activeStep and the interval unchanged; a step is
\* marked complete (activeStep set to stepIndex + 1, isRunning false) only by
\* a tick taken when progress is already 100.
C11_CompleteOnlyAtHundred ==
    /\ [][nextInterval' # nextInterval => progress' = 0 /\ isRunning']_vars
    /\ [][(DashTick /\ progress < 100) =>
            /\ progress' = progress + 10
            /\ isRunning /\ isRunning'
            /\ activeStep' = activeStep
            /\ intervals' = intervals
            /\ completed' = completed]_vars
    /\ [][(completed' # completed \/ activeStep' # activeStep \/ (isRunning /\ ~isRunning')) =>
            /\ DashTick
            /\ progress = 100 /\ progress' = 100
            /\ ~isRunning'
            /\ \E id \in DOMAIN intervals :
                 /\ id \notin DOMAIN intervals'
                 /\ activeStep' = intervals[id] + 1
                 /\ completed' = Append(completed, intervals[id])]_vars

C11_Witness == isRunning /\ progress = 100 /\ activeStep = 1 /\ completed = <<0>>

\* C12: progress is always a multiple of 10 between 0 and 100.
C12_ProgressIsPercentage ==
    progress % 10 = 0 /\ progress >= 0 /\ progress <= 100

C12_Witness == progress = 100 /\ nextInterval >= 2 /\ Len(completed) >= 2

\* C13: activeStep never decreases, and once the Sample Recommendations panel
\* is displayed it stays displayed.
C13_ProgressNeverLost ==
    /\ [][activeStep' >= activeStep]_vars
    /\ [][SamplePanelVisible => SamplePanelVisible']_vars

\* C14: whenever the result card is shown, the user ID of its heading and the
\* model of its description are those of the call that produced the list.
C14_LabelMatchesRequest ==
    ResultCardVisible =>
        /\ callLog # <<>>
        /\ HeadingUser = callLog[Len(callLog)].user
        /\ DescriptionBasis = Basis(callLog[Len(callLog)].model)

\* C15: a generateRecommendations call made while selectedUser is empty
\* starts no timer and changes nothing of the component's state; the list is
\* non-empty only after a call made with a non-empty selectedUser completed.
C15_EmptyUserNoOp ==
    /\ [][emptyCalls' # emptyCalls =>
            /\ Falsy(selectedUser)
            /\ UNCHANGED <<selectedUser, selectedModel, recommendations, isLoading,
                           timeouts, nextTimeout, callLog>>]_vars
    /\ [](recommendations # <<>> =>
            \E k \in 1..Len(callLog) : ~Falsy(callLog[k].user))
    /\ [](\A id \in DOMAIN timeouts : ~Falsy(timeouts[id].user))

C15_Witness ==
    /\ emptyCalls >= 1
    /\ Falsy(selectedUser)
    /\ ~isLoading
    /\ timeouts = <<>>
    /\ Len(callLog) = 1
    /\ recommendations = mockRecommendations

====
